---- MODULE Spec2Model ----
(***************************************************************************)
(* A model of az_scout/obo_auth.py: the request-scoped bearer token        *)
(* (a ContextVar), the On-Behalf-Of exchange built on it, the unverified   *)
(* tenant hint read from the token's JWT payload, and the ASGI middleware  *)
(* that captures the token from the request headers.                       *)
(*                                                                         *)
(* Python str and bytes values are TLA+ strings (TLC treats a string as    *)
(* the sequence of its characters); a character is a string of length 1.   *)
(* The byte 0xFF, which no UTF-8 text contains, is written "ÿ".            *)
(***************************************************************************)
EXTENDS Integers, Sequences, FiniteSets, TLC

(***************************************************************************)
(* Bounds of the model.                                                    *)
(***************************************************************************)
\* Number of execution contexts (asyncio tasks / threads) running at once.
NumContexts == 2
\* Longest header list of a scope in the header-extraction specification.
MaxHeaders == 2

(***************************************************************************)
(* Python values.                                                          *)
(***************************************************************************)
PyNone == [t |-> "None"]
PyStr(s) == [t |-> "str", s |-> s]
PyInt(n) == [t |-> "int", n |-> n]
PyBool(b) == [t |-> "bool", b |-> b]
\* A list holds its items; a dict holds its (key, value) items in order.
PyList(items) == [t |-> "list", items |-> items]
PyDict(items) == [t |-> "dict", items |-> items]

\* Python's truth value of an object: bool(v), `not v`, `a or b`.
Truthy(v) ==
  CASE v.t = "None" -> FALSE
    [] v.t = "str" -> v.s # ""
    [] v.t = "int" -> v.n # 0
    [] v.t = "bool" -> v.b
    [] v.t = "list" -> v.items # <<>>
    [] v.t = "dict" -> v.items # <<>>

\* Python's `a or b`.
PyOr(a, b) == IF Truthy(a) THEN a ELSE b

(***************************************************************************)
(* str methods. They are written over the positions of the string, not by  *)
(* recursion on its tail, so that a long string is no deep evaluation.     *)
(***************************************************************************)
Char(s, i) == SubSeq(s, i, i)

Min(S) == CHOOSE x \in S : \A y \in S : x <= y
Max(S) == CHOOSE x \in S : \A y \in S : x >= y

\* "".join(pieces[lo .. hi])
RECURSIVE Join(_, _, _)
Join(pieces, lo, hi) ==
  IF lo > hi THEN ""
  ELSE IF lo = hi THEN pieces[lo]
  ELSE LET mid == (lo + hi) \div 2
       IN Join(pieces, lo, mid) \o Join(pieces, mid + 1, hi)

UpperCase == "ABCDEFGHIJKLMNOPQRSTUVWXYZ"
LowerCase == "abcdefghijklmnopqrstuvwxyz"

\* The characters of str.
CharSet(str) == {Char(str, i) : i \in 1 .. Len(str)}

\* The characters of str, each with its position.
Indexed(str) == {<<Char(str, i), i>> : i \in 1 .. Len(str)}

\* The position of a character of str that occurs once in it.
PositionIn(pairs, ch) == (CHOOSE p \in pairs : p[1] = ch)[2]

UpperChars == CharSet(UpperCase)
UpperIndexed == Indexed(UpperCase)

LowerChar(ch) ==
  IF ch \in UpperChars THEN Char(LowerCase, PositionIn(UpperIndexed, ch)) ELSE ch

\* str.lower()
Lower(s) ==
  IF \A i \in 1 .. Len(s) : Char(s, i) \notin UpperChars THEN s
  ELSE Join([i \in 1 .. Len(s) |-> LowerChar(Char(s, i))], 1, Len(s))

\* str.startswith(prefix)
StartsWith(s, prefix) ==
  Len(s) >= Len(prefix) /\ SubSeq(s, 1, Len(prefix)) = prefix

\* The whitespace str.strip() removes (of the characters a header can hold).
IsSpace(ch) == ch \in {" ", "\t", "\n", "\r", "\f"}

\* str.strip(): from the first to the last character that is no whitespace.
Strip(s) ==
  LET kept == {i \in 1 .. Len(s) : ~IsSpace(Char(s, i))}
  IN IF kept = {} THEN "" ELSE SubSeq(s, Min(kept), Max(kept))

\* s[n:]
SliceFrom(s, n) == SubSeq(s, n + 1, Len(s))

\* str.split(sep) for a separator of one character: the list of the pieces.
Split(s, sep) ==
  LET at == {i \in 1 .. Len(s) : Char(s, i) = sep}
      \* the k-th separator's position; 0 before the first, Len(s) + 1 after the last
      cut(k) == IF k = 0 THEN 0
                ELSE IF k > Cardinality(at) THEN Len(s) + 1
                ELSE CHOOSE i \in at : Cardinality({j \in at : j < i}) = k - 1
  IN [k \in 1 .. Cardinality(at) + 1 |-> SubSeq(s, cut(k - 1) + 1, cut(k) - 1)]

\* The printable ASCII characters in code order: code 32 (space) to 95 (_),
\* and code 97 (a) to 126 (~). Code 96 is left out: a TLA+ string cannot hold it.
Ascii32To95 ==
  " !\"#$%&'()*+,-./0123456789:;<=>?@ABCDEFGHIJKLMNOPQRSTUVWXYZ[\\]^_"
Ascii97To126 == "abcdefghijklmnopqrstuvwxyz{|}~"

PrintableChars == CharSet(Ascii32To95) \cup CharSet(Ascii97To126)
IsPrintable(ch) == ch \in PrintableChars

\* Whether every character of s is ASCII text (printable, or a tab).
IsAscii(s) == \A i \in 1 .. Len(s) : IsPrintable(Char(s, i)) \/ Char(s, i) = "\t"

\* bytes.decode(): the text of UTF-8 bytes, which for ASCII bytes has the same
\* characters; a byte sequence that is not UTF-8 (here: one holding the byte
\* 0xFF) raises UnicodeDecodeError.
DecodeRaises(bytes) == ~IsAscii(bytes)
Decode(bytes) == bytes

(***************************************************************************)
(* The outcome of a call: the value it returned, or that it raised.        *)
(***************************************************************************)
Returned(v) == [raised |-> FALSE, val |-> v]
Raised == [raised |-> TRUE, val |-> PyNone]

(***************************************************************************)
(* OBOMiddleware._extract_token                                            *)
(***************************************************************************)
\* scope.get("headers", []): the list of (name, value) pairs of bytes.
ScopeHeaders(scope) == IF "headers" \in DOMAIN scope THEN scope.headers ELSE <<>>

\* A faulty variant: the Authorization token is preferred to the EasyAuth one.
ExtractResult_auth_first(easyauth_token, auth_token) == PyOr(auth_token, easyauth_token)

\* A faulty variant: an empty extracted token is turned into None.
ExtractResult_none_if_empty(easyauth_token, auth_token) ==
  IF Truthy(PyOr(easyauth_token, auth_token)) THEN PyOr(easyauth_token, auth_token)
  ELSE PyNone

\* return easyauth_token or auth_token
ExtractResult(easyauth_token, auth_token) == PyOr(easyauth_token, auth_token)

\* The for loop over the headers, from the values the two locals hold.
RECURSIVE ExtractLoop(_, _, _)
ExtractLoop(headers, easyauth_token, auth_token) ==
  IF headers = <<>> THEN Returned(ExtractResult(easyauth_token, auth_token))
  ELSE
    LET name == Head(headers)[1]
        value == Head(headers)[2]
        rest == Tail(headers)
    IN
    IF DecodeRaises(name) THEN Raised
    ELSE
      LET header_name == Lower(Decode(name)) IN
      IF header_name = "x-ms-token-aad-access-token" THEN
        IF DecodeRaises(value) THEN Raised
        ELSE ExtractLoop(rest, PyStr(Decode(value)), auth_token)
      ELSE IF header_name = "authorization" THEN
        IF DecodeRaises(value) THEN Raised
        ELSE
          LET auth_value == Decode(value) IN
          IF StartsWith(Lower(auth_value), "bearer ")
          THEN ExtractLoop(rest, easyauth_token, PyStr(Strip(SliceFrom(auth_value, 7))))
          ELSE ExtractLoop(rest, easyauth_token, auth_token)
      ELSE ExtractLoop(rest, easyauth_token, auth_token)

_extract_token(scope) == ExtractLoop(ScopeHeaders(scope), PyNone, PyNone)

(***************************************************************************)
(* The state of the module.                                                *)
(***************************************************************************)
VARIABLES
  OBO_CLIENT_ID,      \* the three configuration values, read from the
  OBO_CLIENT_SECRET,  \* environment when the module is imported ("" when unset)
  OBO_TENANT_ID,
  user_bearer_token,  \* the ContextVar: its value in each execution context
  stage,              \* per context: "idle", or "app" while the middleware awaits the next stage
  scope,              \* per context: the ASGI scope the middleware handed to the next stage
  inflight,           \* per context: the exchange call the context is blocked in
  last,               \* the last event: a call that returned or raised, or the next stage invoked
  lastSet             \* per context: the argument of its most recent set_user_token call

config == <<OBO_CLIENT_ID, OBO_CLIENT_SECRET, OBO_TENANT_ID>>
vars == <<OBO_CLIENT_ID, OBO_CLIENT_SECRET, OBO_TENANT_ID, user_bearer_token,
          stage, scope, inflight, last, lastSet>>

Contexts == 1 .. NumContexts

ARM_SCOPE == "https://management.azure.com/.default"

NoScope == [type |-> "none"]
NoCall == [op |-> "none"]

\* An event: what context ctx did last. sets lists the arguments of the
\* set_user_token calls made in it, call is the exchange call made in it.
Event(ctx, op, args, outcome, sets, call) ==
  [ctx |-> ctx, op |-> op, args |-> args, raised |-> outcome.raised,
   val |-> outcome.val, sets |-> sets, call |-> call]

(***************************************************************************)
(* The Request Token Context.                                              *)
(***************************************************************************)
\* A faulty variant: one slot shared by every context (a module global).
set_user_token_shared(c, token) ==
  user_bearer_token' = [x \in Contexts |-> token]

\* A faulty variant: a set does not overwrite a token the slot holds.
set_user_token_keeps_first(c, token) ==
  user_bearer_token' =
    [user_bearer_token EXCEPT ![c] = IF @ = PyNone THEN token ELSE @]

\* _user_bearer_token.set(token), run in context c.
set_user_token(c, token) ==
  user_bearer_token' = [user_bearer_token EXCEPT ![c] = token]

\* _user_bearer_token.get(), run in context c.
get_user_token(c) == user_bearer_token[c]

\* A faulty variant: the tenant is not looked at.
is_obo_configured_without_tenant ==
  Truthy(PyStr(OBO_CLIENT_ID)) /\ Truthy(PyStr(OBO_CLIENT_SECRET))

is_obo_configured ==
  Truthy(PyStr(OBO_CLIENT_ID)) /\ Truthy(PyStr(OBO_CLIENT_SECRET))
    /\ Truthy(PyStr(OBO_TENANT_ID))

(***************************************************************************)
(* The exchange dependency: OnBehalfOfCredential(...).get_token(scope).    *)
(* What it does is not this module's code: the constructor raises or       *)
(* returns, and get_token raises or returns an access token.               *)
(***************************************************************************)
IssuedTokens == {"issued-xyz"}
ExchangeOutcomes ==
  {[kind |-> "ctor_raises", token |-> ""], [kind |-> "get_token_raises", token |-> ""]}
    \cup {[kind |-> "token", token |-> t] : t \in IssuedTokens}

\* A faulty variant: the exchange always goes to the configured tenant.
_exchange_obo_credential_default_tenant(user_token, tenant_id) ==
  [tenant_id |-> PyStr(OBO_TENANT_ID),
   client_id |-> OBO_CLIENT_ID,
   client_secret |-> OBO_CLIENT_SECRET,
   user_assertion |-> user_token]

\* The keyword arguments _exchange_obo gives the credential.
_exchange_obo_credential(user_token, tenant_id) ==
  [tenant_id |-> PyOr(tenant_id, PyStr(OBO_TENANT_ID)),
   client_id |-> OBO_CLIENT_ID,
   client_secret |-> OBO_CLIENT_SECRET,
   user_assertion |-> user_token]

\* A faulty variant: a failure of the dependency is not caught.
_exchange_obo_result_propagates(outcome) ==
  IF outcome.kind = "token"
  THEN Returned([t |-> "dict",
                 d |-> ("Authorization" :> ("Bearer " \o outcome.token))
                         @@ ("Content-Type" :> "application/json")])
  ELSE Raised

\* A faulty variant: the mapping lacks its Content-Type entry.
_exchange_obo_result_partial(outcome) ==
  IF outcome.kind = "token"
  THEN Returned([t |-> "dict", d |-> ("Authorization" :> ("Bearer " \o outcome.token))])
  ELSE Returned(PyNone)

\* What _exchange_obo returns, from what the dependency did.
_exchange_obo_result(outcome) ==
  IF outcome.kind = "token"
  THEN Returned([t |-> "dict",
                 d |-> ("Authorization" :> ("Bearer " \o outcome.token))
                         @@ ("Content-Type" :> "application/json")])
  ELSE Returned(PyNone)

\* The keyword arguments check_obo_tenant_auth gives the credential.
check_obo_tenant_auth_credential(user_token, tenant_id) ==
  [tenant_id |-> tenant_id,
   client_id |-> OBO_CLIENT_ID,
   client_secret |-> OBO_CLIENT_SECRET,
   user_assertion |-> user_token]

\* A faulty variant: the check succeeds whatever the dependency did.
check_obo_tenant_auth_result_always_true(outcome) == Returned(PyBool(TRUE))

\* What check_obo_tenant_auth returns, from what the dependency did.
check_obo_tenant_auth_result(outcome) == Returned(PyBool(outcome.kind = "token"))

\* A faulty variant: get_token is asked for the scope of another API.
RequestedScopes_other_api(outcome) ==
  IF outcome.kind = "ctor_raises" THEN <<>> ELSE <<"https://graph.microsoft.com/.default">>

\* The scopes get_token was asked for: none when the constructor raised.
RequestedScopes(outcome) == IF outcome.kind = "ctor_raises" THEN <<>> ELSE <<ARM_SCOPE>>

\* A faulty variant: get_obo_headers looks at the configuration only.
get_obo_headers_returns_early_unconfigured(c) == ~is_obo_configured

\* Whether get_obo_headers returns None before any exchange.
get_obo_headers_returns_early(c) ==
  ~Truthy(get_user_token(c)) \/ ~is_obo_configured

(***************************************************************************)
(* The operations. Each is run by one context c, which can start one only  *)
(* while it is not blocked in an exchange.                                 *)
(***************************************************************************)
Free(c) == inflight[c] = NoCall

\* set_user_token(token) called outside the middleware's next stage.
Call_set_user_token(c, token) ==
  /\ Free(c) /\ stage[c] = "idle"
  /\ set_user_token(c, token)
  /\ lastSet' = [lastSet EXCEPT ![c] = token]
  /\ last' = Event(c, "set_user_token", <<token>>, Returned(PyNone), <<token>>, NoCall)
  /\ UNCHANGED <<config, stage, scope, inflight>>

\* set_user_token(token) called by the next stage, during a request.
App_set_user_token(c, token) ==
  /\ Free(c) /\ stage[c] = "app"
  /\ set_user_token(c, token)
  /\ lastSet' = [lastSet EXCEPT ![c] = token]
  /\ last' = Event(c, "set_user_token", <<token>>, Returned(PyNone), <<token>>, NoCall)
  /\ UNCHANGED <<config, stage, scope, inflight>>

Call_get_user_token(c) ==
  /\ Free(c)
  /\ last' = Event(c, "get_user_token", <<>>, Returned(get_user_token(c)), <<>>, NoCall)
  /\ UNCHANGED <<config, user_bearer_token, stage, scope, inflight, lastSet>>

Call_is_obo_configured(c) ==
  /\ Free(c)
  /\ last' = Event(c, "is_obo_configured", <<>>, Returned(PyBool(is_obo_configured)),
                   <<>>, NoCall)
  /\ UNCHANGED <<config, user_bearer_token, stage, scope, inflight, lastSet>>

\* get_obo_headers(tenant_id), up to its return or to the exchange it blocks in.
Call_get_obo_headers(c, tenant_id) ==
  /\ Free(c)
  /\ IF get_obo_headers_returns_early(c)
     THEN /\ last' = Event(c, "get_obo_headers", <<tenant_id>>, Returned(PyNone),
                           <<>>, NoCall)
          /\ UNCHANGED inflight
     ELSE /\ inflight' = [inflight EXCEPT ![c] =
                 [op |-> "get_obo_headers", args |-> <<tenant_id>>,
                  cred |-> _exchange_obo_credential(get_user_token(c), tenant_id)]]
          /\ UNCHANGED last
  /\ UNCHANGED <<config, user_bearer_token, stage, scope, lastSet>>

\* check_obo_tenant_auth(user_token, tenant_id), up to the exchange it blocks in.
Call_check_obo_tenant_auth(c, user_token, tenant_id) ==
  /\ Free(c)
  /\ inflight' = [inflight EXCEPT ![c] =
         [op |-> "check_obo_tenant_auth", args |-> <<user_token, tenant_id>>,
          cred |-> check_obo_tenant_auth_credential(user_token, tenant_id)]]
  /\ UNCHANGED <<config, user_bearer_token, stage, scope, last, lastSet>>

\* A faulty variant: a failed exchange is made again instead of returning.
ExchangeEnds_retries(c, outcome) ==
  /\ ~Free(c)
  /\ LET made == [cred |-> inflight[c].cred, outcome |-> outcome.kind,
                  token |-> outcome.token, scopes |-> RequestedScopes(outcome)]
         result == IF inflight[c].op = "get_obo_headers"
                   THEN _exchange_obo_result(outcome)
                   ELSE check_obo_tenant_auth_result(outcome)
     IN IF outcome.kind = "token"
        THEN /\ last' = Event(c, inflight[c].op, inflight[c].args, result, <<>>, made)
             /\ inflight' = [inflight EXCEPT ![c] = NoCall]
        ELSE /\ last' = Event(c, "retry", inflight[c].args, result, <<>>, made)
             /\ UNCHANGED inflight
  /\ UNCHANGED <<config, user_bearer_token, stage, scope, lastSet>>

\* The exchange a context is blocked in ends, and the function that made it returns.
ExchangeEnds(c, outcome) ==
  /\ ~Free(c)
  /\ LET made == [cred |-> inflight[c].cred, outcome |-> outcome.kind,
                  token |-> outcome.token, scopes |-> RequestedScopes(outcome)]
         result == IF inflight[c].op = "get_obo_headers"
                   THEN _exchange_obo_result(outcome)
                   ELSE check_obo_tenant_auth_result(outcome)
     IN last' = Event(c, inflight[c].op, inflight[c].args, result, <<>>, made)
  /\ inflight' = [inflight EXCEPT ![c] = NoCall]
  /\ UNCHANGED <<config, user_bearer_token, stage, scope, lastSet>>

\* A faulty variant: the middleware sets the slot only when it extracted a token.
MiddlewareSets_found_only(sc, token) == sc.type = "http" /\ Truthy(token)

\* A faulty variant: the middleware sets the slot for a scope of any type.
MiddlewareSets_any_type(sc, token) == TRUE

\* Whether OBOMiddleware.__call__ calls set_user_token for this scope.
MiddlewareSets(sc, token) == sc.type = "http"

\* OBOMiddleware.__call__(scope, receive, send), up to the await of the next stage.
OBOMiddleware_call(c, sc) ==
  /\ Free(c) /\ stage[c] = "idle"
  /\ LET r == IF sc.type = "http" THEN _extract_token(sc) ELSE Returned(PyNone) IN
     IF r.raised
     THEN /\ last' = Event(c, "OBOMiddleware.__call__", <<sc>>, Raised, <<>>, NoCall)
          /\ UNCHANGED <<user_bearer_token, stage, scope, lastSet>>
     ELSE /\ IF MiddlewareSets(sc, r.val)
             THEN /\ set_user_token(c, r.val)
                  /\ lastSet' = [lastSet EXCEPT ![c] = r.val]
                  /\ last' = Event(c, "app", <<sc>>, Returned(PyNone), <<r.val>>, NoCall)
             ELSE /\ UNCHANGED <<user_bearer_token, lastSet>>
                  /\ last' = Event(c, "app", <<sc>>, Returned(PyNone), <<>>, NoCall)
          /\ stage' = [stage EXCEPT ![c] = "app"]
          /\ scope' = [scope EXCEPT ![c] = sc]
  /\ UNCHANGED <<config, inflight>>

\* The next stage returns, and so does OBOMiddleware.__call__.
AppReturns(c) ==
  /\ Free(c) /\ stage[c] = "app"
  /\ stage' = [stage EXCEPT ![c] = "idle"]
  /\ scope' = [scope EXCEPT ![c] = NoScope]
  /\ last' = Event(c, "OBOMiddleware.__call__", <<>>, Returned(PyNone), <<>>, NoCall)
  /\ UNCHANGED <<config, user_bearer_token, inflight, lastSet>>

(***************************************************************************)
(* base64.urlsafe_b64decode(str): the bytes, as a sequence of 0 .. 255.    *)
(***************************************************************************)
B64Alphabet == "ABCDEFGHIJKLMNOPQRSTUVWXYZabcdefghijklmnopqrstuvwxyz0123456789+/"

\* bytes.translate: the URL-safe alphabet's "-" and "_" become "+" and "/".
UrlsafeTranslate(ch) == IF ch = "-" THEN "+" ELSE IF ch = "_" THEN "/" ELSE ch

BytesReturned(bytes) == [raised |-> FALSE, bytes |-> bytes]
BytesRaised == [raised |-> TRUE, bytes |-> <<>>]

B64Chars == CharSet(B64Alphabet)
B64Indexed == Indexed(B64Alphabet)

\* The 6-bit value of a character of the alphabet, -1 for any other character.
B64Value(ch) ==
  LET std == UrlsafeTranslate(ch)
  IN IF std \in B64Chars THEN PositionIn(B64Indexed, std) - 1 ELSE -1

\* binascii.a2b_base64 without strict_mode. Its loop keeps quad_pos (the data
\* characters read, modulo 4) and pads (the "=" read since the last data
\* character, counted while quad_pos >= 2): a character outside the alphabet
\* is skipped; a "=" with quad_pos >= 2 and quad_pos + pads >= 4 ends the data;
\* at the end of the input, data left in an incomplete quad raises
\* binascii.Error. Here the same, over the positions of s.
a2b_base64(s) ==
  LET n == Len(s)
      IsData(i) == B64Value(Char(s, i)) >= 0
      IsPad(i) == Char(s, i) = "="
      \* the data characters before position i, and quad_pos there
      DataBefore(i) == {j \in 1 .. i - 1 : IsData(j)}
      QuadPos(i) == Cardinality(DataBefore(i)) % 4
      \* pads after the "=" at position i is read
      Pads(i) ==
        LET from == IF DataBefore(i) = {} THEN 0 ELSE Max(DataBefore(i))
        IN Cardinality({j \in from + 1 .. i : IsPad(j)})
      Ends == {i \in 1 .. n : IsPad(i) /\ QuadPos(i) >= 2 /\ QuadPos(i) + Pads(i) >= 4}
      stop == IF Ends = {} THEN n + 1 ELSE Min(Ends)
      \* the data characters read, in order
      data == Join([i \in 1 .. stop - 1 |-> IF IsData(i) THEN Char(s, i) ELSE ""],
                   1, stop - 1)
      d == Len(data)
      \* the value of the k-th data character
      v(k) == B64Value(Char(data, k))
      nbytes == 3 * (d \div 4) + (IF d % 4 = 0 THEN 0 ELSE (d % 4) - 1)
      byte(j) ==
        LET g == 4 * ((j - 1) \div 3)
            r == (j - 1) % 3
        IN IF r = 0 THEN v(g + 1) * 4 + v(g + 2) \div 16
           ELSE IF r = 1 THEN (v(g + 2) % 16) * 16 + v(g + 3) \div 4
           ELSE (v(g + 3) % 4) * 64 + v(g + 4)
  IN IF Ends = {} /\ d % 4 # 0 THEN BytesRaised
     ELSE BytesReturned([j \in 1 .. nbytes |-> byte(j)])

\* str.encode("ascii") of the argument raises ValueError on a non-ASCII character.
urlsafe_b64decode(s) ==
  IF ~IsAscii(s) THEN BytesRaised ELSE a2b_base64(s)

\* payload += "=" * (-len(payload) % 4)
RestorePadding(payload) ==
  payload \o SubSeq("===", 1, (4 - (Len(payload) % 4)) % 4)

(***************************************************************************)
(* json.loads(bytes)                                                       *)
(***************************************************************************)
\* The character of an ASCII byte. "\f" stands for every control character
\* that JSON allows nowhere; "" for a byte this model has no text for.
CodeToChar(b) ==
  IF b >= 32 /\ b <= 95 THEN Char(Ascii32To95, b - 31)
  ELSE IF b >= 97 /\ b <= 126 THEN Char(Ascii97To126, b - 96)
  ELSE IF b = 9 THEN "\t"
  ELSE IF b = 10 THEN "\n"
  ELSE IF b = 13 THEN "\r"
  ELSE IF b >= 1 /\ b < 32 THEN "\f"
  ELSE ""

\* bytes.decode(detect_encoding(bytes)) for bytes that are ASCII text; ok is
\* FALSE for bytes outside it (a NUL, code 96, 127 and above).
BytesToText(bytes) ==
  LET chars == [i \in 1 .. Len(bytes) |-> CodeToChar(bytes[i])]
  IN IF \E i \in 1 .. Len(bytes) : chars[i] = "" THEN [ok |-> FALSE, text |-> ""]
     ELSE [ok |-> TRUE, text |-> Join(chars, 1, Len(bytes))]

\* A parse: status "ok" with the value and the text after it, "error"
\* (JSONDecodeError), or "unsupported" for JSON this model does not read
\* (escapes in strings, fractions and exponents, NaN and Infinity).
Parsed(val, rest) == [status |-> "ok", val |-> val, rest |-> rest]
ParseError == [status |-> "error", val |-> PyNone, rest |-> ""]
Unsupported == [status |-> "unsupported", val |-> PyNone, rest |-> ""]

\* json.decoder.WHITESPACE
IsJsonSpace(ch) == ch \in {" ", "\t", "\n", "\r"}

\* The first position of s, from position 1 on, whose character fails Test;
\* Len(s) + 1 when every character passes.
FirstNot(s, Test(_)) ==
  LET at == {i \in 1 .. Len(s) : ~Test(Char(s, i))}
  IN IF at = {} THEN Len(s) + 1 ELSE Min(at)

\* WHITESPACE.match(s).end(): s without the white space it begins with.
SkipSpace(s) == SubSeq(s, FirstNot(s, IsJsonSpace), Len(s))

\* A character a string holds as it is: not the quote, the backslash or a control.
IsPlain(ch) == IsPrintable(ch) /\ ch # "\"" /\ ch # "\\"

\* scanstring, after the opening quote: up to the closing quote.
ScanString(s) ==
  LET end == FirstNot(s, IsPlain) IN
  IF end > Len(s) THEN ParseError
  ELSE IF Char(s, end) = "\"" THEN Parsed(PyStr(SubSeq(s, 1, end - 1)), SliceFrom(s, end))
  ELSE IF Char(s, end) = "\\" THEN Unsupported
  ELSE ParseError

Digits == "0123456789"
DigitChars == CharSet(Digits)
DigitIndexed == Indexed(Digits)
IsDigit(ch) == ch \in DigitChars

\* The number the digits of s spell.
RECURSIVE DigitsValue(_)
DigitsValue(s) ==
  IF s = "" THEN 0
  ELSE 10 * DigitsValue(SubSeq(s, 1, Len(s) - 1)) + PositionIn(DigitIndexed, Char(s, Len(s))) - 1

\* The digits s begins with, as a number, and the text after them.
ScanDigits(s) ==
  LET end == FirstNot(s, IsDigit)
  IN [n |-> DigitsValue(SubSeq(s, 1, end - 1)), rest |-> SubSeq(s, end, Len(s))]

\* NUMBER_RE: -?(0|[1-9][0-9]*), an integer.
ScanNumber(s) ==
  LET neg == s # "" /\ Head(s) = "-"
      body == IF neg THEN Tail(s) ELSE s
  IN
  IF body = "" \/ ~IsDigit(Head(body))
  THEN (IF StartsWith(s, "-Infinity") THEN Unsupported ELSE ParseError)
  ELSE
    LET d == IF Head(body) = "0" THEN [n |-> 0, rest |-> Tail(body)]
             ELSE ScanDigits(body)
    IN IF d.rest # "" /\ Head(d.rest) \in {".", "e", "E"} THEN Unsupported
       ELSE Parsed(PyInt(IF neg THEN 0 - d.n ELSE d.n), d.rest)

RECURSIVE ScanOnce(_)
RECURSIVE ScanMembers(_, _)
RECURSIVE ScanItems(_, _)

\* JSONObject after "{" and white space, at a key: the pairs, to the "}".
ScanMembers(s, items) ==
  IF s = "" \/ Head(s) # "\"" THEN ParseError
  ELSE
    LET key == ScanString(Tail(s)) IN
    IF key.status # "ok" THEN key
    ELSE
      LET afterKey == SkipSpace(key.rest) IN
      IF afterKey = "" \/ Head(afterKey) # ":" THEN ParseError
      ELSE
        LET value == ScanOnce(SkipSpace(Tail(afterKey))) IN
        IF value.status # "ok" THEN value
        ELSE
          LET more == Append(items, <<key.val.s, value.val>>)
              after == SkipSpace(value.rest)
          IN
          IF after = "" THEN ParseError
          ELSE IF Head(after) = "}" THEN Parsed(PyDict(more), Tail(after))
          ELSE IF Head(after) = "," THEN ScanMembers(SkipSpace(Tail(after)), more)
          ELSE ParseError

\* JSONArray after "[" and white space, at a value: the items, to the "]".
ScanItems(s, items) ==
  LET value == ScanOnce(s) IN
  IF value.status # "ok" THEN value
  ELSE
    LET more == Append(items, value.val)
        after == SkipSpace(value.rest)
    IN
    IF after = "" THEN ParseError
    ELSE IF Head(after) = "]" THEN Parsed(PyList(more), Tail(after))
    ELSE IF Head(after) = "," THEN ScanItems(SkipSpace(Tail(after)), more)
    ELSE ParseError

\* scan_once: the JSON value s begins with.
ScanOnce(s) ==
  IF s = "" THEN ParseError
  ELSE IF Head(s) = "\"" THEN ScanString(Tail(s))
  ELSE IF Head(s) = "{" THEN
    LET body == SkipSpace(Tail(s)) IN
    IF body # "" /\ Head(body) = "}" THEN Parsed(PyDict(<<>>), Tail(body))
    ELSE ScanMembers(body, <<>>)
  ELSE IF Head(s) = "[" THEN
    LET body == SkipSpace(Tail(s)) IN
    IF body # "" /\ Head(body) = "]" THEN Parsed(PyList(<<>>), Tail(body))
    ELSE ScanItems(body, <<>>)
  ELSE IF StartsWith(s, "null") THEN Parsed(PyNone, SliceFrom(s, 4))
  ELSE IF StartsWith(s, "true") THEN Parsed(PyBool(TRUE), SliceFrom(s, 4))
  ELSE IF StartsWith(s, "false") THEN Parsed(PyBool(FALSE), SliceFrom(s, 5))
  ELSE IF StartsWith(s, "NaN") \/ StartsWith(s, "Infinity") THEN Unsupported
  ELSE ScanNumber(s)

\* JSONDecoder.decode: one value, white space around it, and nothing else.
JsonDecode(text) ==
  LET value == ScanOnce(SkipSpace(text)) IN
  IF value.status # "ok" THEN value
  ELSE IF SkipSpace(value.rest) # "" THEN ParseError
  ELSE value

json_loads(bytes) ==
  LET t == BytesToText(bytes) IN IF t.ok THEN JsonDecode(t.text) ELSE Unsupported

(***************************************************************************)
(* get_user_tenant_id                                                      *)
(***************************************************************************)
\* dict.get(key): the value of the last item with that key, None without one.
RECURSIVE DictGet(_, _)
DictGet(items, key) ==
  IF items = <<>> THEN PyNone
  ELSE IF items[Len(items)][1] = key THEN items[Len(items)][2]
  ELSE DictGet(SubSeq(items, 1, Len(items) - 1), key)

\* A faulty variant: tenant_id is preferred to tid.
ClaimsTenant_tenant_id_first(claims) ==
  PyOr(DictGet(claims.items, "tenant_id"), DictGet(claims.items, "tid"))

\* claims.get("tid") or claims.get("tenant_id")
ClaimsTenant(claims) ==
  PyOr(DictGet(claims.items, "tid"), DictGet(claims.items, "tenant_id"))

NotSupported == [t |-> "unsupported"]

\* The body of the try block, from the token; every exception is caught.
TenantOfToken(user_token) ==
  LET pieces == Split(user_token, ".") IN
  IF Len(pieces) < 2 THEN Returned(PyNone)
  ELSE
    LET payload == RestorePadding(pieces[2])
        decoded == urlsafe_b64decode(payload)
    IN
    IF decoded.raised THEN Returned(PyNone)
    ELSE
      LET claims == json_loads(decoded.bytes) IN
      IF claims.status = "unsupported" THEN Returned(NotSupported)
      ELSE IF claims.status = "error" THEN Returned(PyNone)
      ELSE IF claims.val.t # "dict" THEN Returned(PyNone)
      ELSE Returned(ClaimsTenant(claims.val))

get_user_tenant_id(c) ==
  LET user_token == get_user_token(c) IN
  IF ~Truthy(user_token) THEN Returned(PyNone) ELSE TenantOfToken(user_token.s)

\* A faulty variant: reading the tenant hint consumes the token.
Call_get_user_tenant_id_consumes(c) ==
  /\ Free(c)
  /\ last' = Event(c, "get_user_tenant_id", <<>>, get_user_tenant_id(c), <<>>, NoCall)
  /\ user_bearer_token' = [user_bearer_token EXCEPT ![c] = PyNone]
  /\ UNCHANGED <<config, stage, scope, inflight, lastSet>>

Call_get_user_tenant_id(c) ==
  /\ Free(c)
  /\ last' = Event(c, "get_user_tenant_id", <<>>, get_user_tenant_id(c), <<>>, NoCall)
  /\ UNCHANGED <<config, user_bearer_token, stage, scope, inflight, lastSet>>

(***************************************************************************)
(* The inputs.                                                             *)
(***************************************************************************)
\* The state when the module has been imported, but for the configuration.
Imported ==
  /\ user_bearer_token = [c \in Contexts |-> PyNone]
  /\ stage = [c \in Contexts |-> "idle"]
  /\ scope = [c \in Contexts |-> NoScope]
  /\ inflight = [c \in Contexts |-> NoCall]
  /\ last = Event(0, "import", <<>>, Returned(PyNone), <<>>, NoCall)
  /\ lastSet = [c \in Contexts |-> PyNone]

\* The token of the specification's end-to-end scenario, and an EasyAuth one.
BearerJwt == "abc.eyJ0aWQiOiJ0ZW5hbnQxIn0.sig"
EasyAuthJwt == "hdr.eyJ0ZW5hbnRfaWQiOiJ4eXoifQ.sig"

Http(headers) == [type |-> "http", headers |-> headers]

\* The tenant_id arguments of get_obo_headers.
TenantArgs == {PyNone, PyStr(""), PyStr("tenant2")}

(***************************************************************************)
(* Spec: NumContexts contexts run the operations concurrently.             *)
(***************************************************************************)
Scopes ==
  { Http(<<<<"x-ms-token-aad-access-token", EasyAuthJwt>>,
           <<"authorization", "Bearer " \o BearerJwt>>>>),
    Http(<<<<"authorization", "Bearer " \o BearerJwt>>>>),
    Http(<<>>),
    [type |-> "lifespan"] }

SetArgs == {PyNone, PyStr("ta"), PyStr("tb")}

Init ==
  /\ Imported
  /\ OBO_CLIENT_ID = "app-id"
  /\ OBO_CLIENT_SECRET = "app-secret"
  /\ OBO_TENANT_ID \in {"", "tenant1"}

Next ==
  \E c \in Contexts :
    \/ \E token \in SetArgs : Call_set_user_token(c, token)
    \/ \E token \in SetArgs : App_set_user_token(c, token)
    \/ Call_get_user_token(c)
    \/ \E sc \in Scopes : OBOMiddleware_call(c, sc)
    \/ AppReturns(c)
    \/ Call_get_obo_headers(c, PyNone)
    \/ \E outcome \in ExchangeOutcomes : ExchangeEnds(c, outcome)

Spec == Init /\ [][Next]_vars

(***************************************************************************)
(* SpecSeq: one context runs every operation, under every configuration.   *)
(***************************************************************************)
SeqContexts == {1}

\* Every configuration: each value unset (the "" default) or set.
AnyConfig ==
  /\ OBO_CLIENT_ID \in {"", "app-id"}
  /\ OBO_CLIENT_SECRET \in {"", "app-secret"}
  /\ OBO_TENANT_ID \in {"", "tenant1"}

SeqSetArgs == {PyNone, PyStr(""), PyStr(BearerJwt), PyStr(EasyAuthJwt)}

\* A scope that is no request and yet carries headers.
WebSocket(headers) == [type |-> "websocket", headers |-> headers]

SeqScopes ==
  Scopes \cup {WebSocket(<<<<"authorization", "Bearer " \o BearerJwt>>>>)}

\* The arguments of check_obo_tenant_auth.
CheckTokens == {PyStr(BearerJwt)}
CheckTenants == {PyStr("tenant2")}

InitSeq == Imported /\ AnyConfig

NextSeq ==
  \E c \in SeqContexts :
    \/ \E token \in SeqSetArgs : Call_set_user_token(c, token)
    \/ Call_get_user_token(c)
    \/ Call_is_obo_configured(c)
    \/ \E tenant_id \in TenantArgs : Call_get_obo_headers(c, tenant_id)
    \/ \E user_token \in CheckTokens, tenant_id \in CheckTenants :
         Call_check_obo_tenant_auth(c, user_token, tenant_id)
    \/ \E outcome \in ExchangeOutcomes : ExchangeEnds(c, outcome)
    \/ Call_get_user_tenant_id(c)
    \/ \E sc \in SeqScopes : OBOMiddleware_call(c, sc)
    \/ AppReturns(c)

SpecSeq == InitSeq /\ [][NextSeq]_vars

(***************************************************************************)
(* SpecHeaders: one context serves requests with every list of at most     *)
(* MaxHeaders headers drawn from Headers.                                  *)
(***************************************************************************)
Headers ==
  { <<"X-MS-TOKEN-AAD-ACCESS-TOKEN", "T1">>,
    <<"x-ms-token-aad-access-token", "T3">>,
    <<"x-ms-token-aad-access-token", "">>,
    <<"x-ms-token-aad-access-token", "ÿ">>,
    <<"Authorization", "Bearer T2">>,
    <<"authorization", "bearer T4">>,
    <<"authorization", "BEARER  T5 ">>,
    <<"authorization", "Bearer ">>,
    <<"authorization", "Bearer">>,
    <<"authorization", "Basic T6">>,
    <<"authorization", "Bearer ÿ">>,
    <<"accept", "*/*">>,
    <<"ÿ", "T7">> }

HeaderLists == UNION {[1 .. n -> Headers] : n \in 0 .. MaxHeaders}

HeaderScopes == {Http(headers) : headers \in HeaderLists} \cup {[type |-> "lifespan"]}

InitHeaders ==
  /\ Imported
  /\ OBO_CLIENT_ID = "app-id"
  /\ OBO_CLIENT_SECRET = "app-secret"
  /\ OBO_TENANT_ID = "tenant1"

NextHeaders ==
  \E c \in SeqContexts :
    \/ \E sc \in HeaderScopes : OBOMiddleware_call(c, sc)
    \/ AppReturns(c)
    \/ Call_get_user_token(c)

SpecHeaders == InitHeaders /\ [][NextHeaders]_vars

(***************************************************************************)
(* SpecTenant: one context holds a token and reads its tenant hint.        *)
(***************************************************************************)
\* Payload segments: the unpadded base64url text of the JSON text named.
TenantPayloads ==
  { "eyJ0aWQiOiJhYmMtMTIzIn0",                    \* {"tid":"abc-123"}
    "eyJ0ZW5hbnRfaWQiOiJ4eXoifQ",                 \* {"tenant_id":"xyz"}
    "eyJ0aWQiOiJ0MSIsInRlbmFudF9pZCI6InQyIn0",    \* {"tid":"t1","tenant_id":"t2"}
    "eyJ0aWQiOiIiLCJ0ZW5hbnRfaWQiOiJ0MiJ9",       \* {"tid":"","tenant_id":"t2"}
    "eyJ0aWQiOiIifQ",                             \* {"tid":""}
    "eyJ0aWQiOm51bGwsInRlbmFudF9pZCI6InQyIn0",    \* {"tid":null,"tenant_id":"t2"}
    "eyJ0aWQiOjAsInRlbmFudF9pZCI6InQyIn0",        \* {"tid":0,"tenant_id":"t2"}
    "eyJ0aWQiOmZhbHNlLCJ0ZW5hbnRfaWQiOiIifQ",     \* {"tid":false,"tenant_id":""}
    "eyJ0aWQiOjd9",                               \* {"tid":7}
    "e30",                                        \* {}
    "eyJzdWIiOiJ1In0",                            \* {"sub":"u"}
    "WyJ0aWQiXQ",                                 \* ["tid"]
    "InRpZCI",                                    \* "tid"
    "Nw",                                         \* 7
    "bnVsbA",                                     \* null
    "eyJ0aWQiOiJhIg",                             \* {"tid":"a"   (no JSON)
    "dGlkPWE" }                                   \* tid=a        (no JSON)

\* The tokens made of a payload: a JWT, the payload alone, two segments, four
\* segments, a character outside the alphabet, one more character, the
\* payload first, the padding written out.
TokensOf(payload) ==
  { "h." \o payload \o ".s",
    payload,
    "h." \o payload,
    "h." \o payload \o ".s.x",
    "h." \o payload \o "!.s",
    "h." \o payload \o "g.s",
    payload \o ".h.s",
    "h." \o RestorePadding(payload) \o ".s" }

TenantTokens ==
  UNION {TokensOf(payload) : payload \in TenantPayloads} \cup {"x", "h..s", "h.ÿ.s"}

TenantSetArgs == {PyStr(token) : token \in TenantTokens} \cup {PyNone, PyStr("")}

InitTenant == InitHeaders

NextTenant ==
  \E c \in SeqContexts :
    \/ \E token \in TenantSetArgs : Call_set_user_token(c, token)
    \/ Call_get_user_tenant_id(c)

SpecTenant == InitTenant /\ [][NextTenant]_vars

(***************************************************************************)
(* The properties.                                                         *)
(***************************************************************************)
\* C1. Request isolation: the slot of a context holds what that context set
\* last (absent before its first set), whatever the other contexts set in
\* between, and a get_user_token returns the caller's own last set value.
C1_RequestIsolation ==
  /\ \A c \in Contexts : user_bearer_token[c] = lastSet[c]
  /\ last.op = "get_user_token" => last.val = lastSet[last.ctx]

\* Context 1 reads back its "ta" while context 2 holds "tb".
C1_Witness ==
  /\ last.op = "get_user_token" /\ last.ctx = 1 /\ last.val = PyStr("ta")
  /\ user_bearer_token[2] = PyStr("tb")

\* C2. With an absent context token, get_obo_headers returns None, raises
\* nothing and invokes no exchange, under every configuration and with
\* every tenant override.
C2_AbsentTokenNoExchange ==
  /\ \A c \in Contexts :
       inflight[c].op = "get_obo_headers" => user_bearer_token[c] # PyNone
  /\ (last.op = "get_obo_headers" /\ user_bearer_token[last.ctx] = PyNone)
       => (~last.raised /\ last.val = PyNone /\ last.call = NoCall)

\* get_obo_headers("tenant2") returned with no token, delegation configured.
C2_Witness ==
  /\ last.op = "get_obo_headers" /\ last.args = <<PyStr("tenant2")>>
  /\ user_bearer_token[last.ctx] = PyNone
  /\ is_obo_configured

\* C3. get_obo_headers never raises, and returns None when the credential's
\* constructor or its get_token raised.
C3_ExchangeFailureIsAbsent ==
  last.op = "get_obo_headers" =>
    /\ ~last.raised
    /\ (last.call # NoCall /\ last.call.outcome # "token") => last.val = PyNone

\* get_obo_headers returned after get_token raised.
C3_Witness ==
  /\ last.op = "get_obo_headers" /\ last.call # NoCall
  /\ last.call.outcome = "get_token_raises"
  /\ last.val = PyNone

\* What the header list of a request says, read without the loop.
IsNamed(header, name) == ~DecodeRaises(header[1]) /\ Lower(header[1]) = name
IsEasyAuth(header) == IsNamed(header, "x-ms-token-aad-access-token")
IsAuthorization(header) == IsNamed(header, "authorization")
IsBearer(header) ==
  IsAuthorization(header) /\ StartsWith(Lower(header[2]), "bearer ")
BearerRemainder(header) == Strip(SliceFrom(header[2], 7))

\* The position of the last header that passes the test, 0 without one.
LastWhere(headers, Test(_)) ==
  Max({0} \cup {i \in 1 .. Len(headers) : Test(headers[i])})

\* Some header cannot be read as text where the middleware reads it.
Undecodable(headers) ==
  \E i \in 1 .. Len(headers) :
    \/ DecodeRaises(headers[i][1])
    \/ /\ IsEasyAuth(headers[i]) \/ IsAuthorization(headers[i])
       /\ DecodeRaises(headers[i][2])

PreferredToken(headers) ==
  LET x == LastWhere(headers, IsEasyAuth)
      b == LastWhere(headers, IsBearer)
  IN IF x > 0 /\ headers[x][2] # "" THEN PyStr(headers[x][2])
     ELSE IF b > 0 THEN PyStr(BearerRemainder(headers[b]))
     ELSE PyNone

\* C4, as amended. The middleware raises, setting nothing, exactly when a
\* header name, or the value of an X-MS-TOKEN-AAD-ACCESS-TOKEN or Authorization
\* header, is not UTF-8. Otherwise the context is set to the value of the last
\* X-MS-TOKEN-AAD-ACCESS-TOKEN header when that value is not empty; else to the
\* remainder, trimmed, of the last Authorization header whose value starts
\* with "bearer " in any case; else to absent.
C4_ExtractionPrecedence ==
  /\ (last.op = "app" /\ last.args[1].type = "http") =>
       /\ ~Undecodable(last.args[1].headers)
       /\ last.sets = <<PreferredToken(last.args[1].headers)>>
       /\ user_bearer_token[last.ctx] = PreferredToken(last.args[1].headers)
  /\ (last.op = "OBOMiddleware.__call__" /\ last.raised) =>
       /\ Undecodable(last.args[1].headers)
       /\ user_bearer_token[last.ctx] = lastSet[last.ctx]

\* An empty X-MS-TOKEN-AAD-ACCESS-TOKEN value gave way to the Authorization token.
C4_Witness ==
  /\ last.op = "app"
  /\ last.args[1] = Http(<<<<"x-ms-token-aad-access-token", "">>,
                           <<"Authorization", "Bearer T2">>>>)
  /\ user_bearer_token[last.ctx] = PyStr("T2")

\* C4 as stated: with an X-MS-TOKEN-AAD-ACCESS-TOKEN header the context is set
\* to the value of one, whatever Authorization carries; otherwise to the
\* trimmed remainder of a bearer Authorization header; otherwise to absent.
C4_AsStated ==
  (last.op = "app" /\ last.args[1].type = "http") =>
    LET headers == last.args[1].headers
        token == user_bearer_token[last.ctx]
        Among(Test(_)) == {i \in 1 .. Len(headers) : Test(headers[i])}
    IN IF Among(IsEasyAuth) # {}
       THEN \E i \in Among(IsEasyAuth) : token = PyStr(headers[i][2])
       ELSE IF Among(IsBearer) # {}
       THEN \E i \in Among(IsBearer) : token = PyStr(BearerRemainder(headers[i]))
       ELSE token = PyNone

\* C5. When the next stage of an http request starts, the middleware has
\* called set_user_token once, with the value extracted from the request's
\* headers, absent included; while the next stage runs, the slot holds that
\* value and get_user_token returns it, whatever the slot held before.
C5_SetBeforeNextStage ==
  /\ (last.op = "app" /\ last.args[1].type = "http") =>
       last.sets = <<_extract_token(last.args[1]).val>>
  /\ \A c \in Contexts :
       (stage[c] = "app" /\ scope[c].type = "http") =>
         /\ user_bearer_token[c] = _extract_token(scope[c]).val
         /\ (last.op = "get_user_token" /\ last.ctx = c) =>
              last.val = _extract_token(scope[c]).val

\* The next stage of a request without headers reads an absent token.
C5_Witness ==
  /\ last.op = "get_user_token" /\ last.val = PyNone
  /\ stage[last.ctx] = "app" /\ scope[last.ctx] = Http(<<>>)

\* C6. A step in which the middleware hands a scope of another type than
\* "http" to the next stage makes no set_user_token call and changes the
\* slot of no context, whatever headers the scope carries.
C6_NonHttpUntouched ==
  [][\A c \in Contexts :
       (stage[c] = "idle" /\ stage'[c] = "app" /\ scope'[c].type # "http") =>
         /\ last'.op = "app" /\ last'.ctx = c /\ last'.sets = <<>>
         /\ user_bearer_token' = user_bearer_token]_vars

\* A websocket scope carrying a bearer token went to the next stage while
\* the slot kept another token.
C6_Witness ==
  /\ last.op = "app" /\ last.args[1].type = "websocket"
  /\ ScopeHeaders(last.args[1]) # <<>>
  /\ stage[last.ctx] = "app"
  /\ user_bearer_token[last.ctx] = PyStr(EasyAuthJwt)

\* C7, as amended. get_obo_headers invokes the exchange with the tenant
\* override when that is a non-empty string, and with the configured tenant
\* when the override is absent or empty; the claims of the request token
\* have no part in it.
C7_TenantRouting ==
  LET Tenant(args) == IF args[1] # PyNone /\ args[1] # PyStr("")
                      THEN args[1] ELSE PyStr(OBO_TENANT_ID)
  IN /\ \A c \in Contexts :
          inflight[c].op = "get_obo_headers" =>
            inflight[c].cred.tenant_id = Tenant(inflight[c].args)
     /\ (last.op = "get_obo_headers" /\ last.call # NoCall) =>
          last.call.cred.tenant_id = Tenant(last.args)

\* An empty override was routed to the configured tenant, for a token whose
\* tenant_id claim names another one.
C7_Witness ==
  /\ last.op = "get_obo_headers" /\ last.args = <<PyStr("")>>
  /\ last.call # NoCall
  /\ last.call.cred.tenant_id = PyStr("tenant1")
  /\ last.call.cred.user_assertion = PyStr(EasyAuthJwt)

\* C7 as stated: the tenant is the override whenever one is provided.
C7_AsStated ==
  (last.op = "get_obo_headers" /\ last.call # NoCall) =>
    last.call.cred.tenant_id =
      IF last.args[1] # PyNone THEN last.args[1] ELSE PyStr(OBO_TENANT_ID)

\* C8 as stated: while a configuration value is empty, no exchange is
\* invoked by get_obo_headers or check_obo_tenant_auth, and get_obo_headers
\* returns None.
C8_ConfigurationGates ==
  ~is_obo_configured =>
    /\ \A c \in Contexts : inflight[c] = NoCall
    /\ last.call = NoCall
    /\ last.op = "get_obo_headers" => last.val = PyNone

\* What a token says, read as the tenant-hint extractor reads it.
Segments(token) == Split(token, ".")
PayloadBytes(token) == urlsafe_b64decode(RestorePadding(Segments(token)[2]))
PayloadJson(token) == json_loads(PayloadBytes(token).bytes)
HasClaim(claims, key) == \E i \in 1 .. Len(claims.items) : claims.items[i][1] = key

\* The payload segment of the token is the JSON text of an object.
HasClaims(token) ==
  /\ Len(Segments(token)) >= 2
  /\ ~PayloadBytes(token).raised
  /\ PayloadJson(token).status = "ok"
  /\ PayloadJson(token).val.t = "dict"

\* base64url (RFC 4648): only characters of the URL-safe alphabet, in a
\* possible number, with no padding or padded to a multiple of four.
Base64UrlChars == (B64Chars \ {"+", "/"}) \cup {"-", "_"}
IsBase64Url(seg) ==
  LET pads == {i \in 1 .. Len(seg) : Char(seg, i) = "="}
      data == (1 .. Len(seg)) \ pads
  IN /\ \A i \in data : Char(seg, i) \in Base64UrlChars
     /\ \A i \in data, j \in pads : i < j
     /\ IF pads = {} THEN Len(seg) % 4 # 1
        ELSE Len(seg) % 4 = 0 /\ Cardinality(pads) <= 2

\* The token held by the context of the last event, a non-empty string.
HintRead == last.op = "get_user_tenant_id" /\ Truthy(user_bearer_token[last.ctx])
HintToken == user_bearer_token[last.ctx].s

\* C9 as stated: the tenant-hint extractor never raises, and returns None
\* for a token that has not three segments, whose payload segment is not
\* base64url or not JSON, or whose payload has no tid or tenant_id claim.
C9_MalformedIsAbsent ==
  HintRead =>
    /\ ~last.raised
    /\ ( \/ Len(Segments(HintToken)) # 3
         \/ ~IsBase64Url(Segments(HintToken)[2])
         \/ ~HasClaims(HintToken)
         \/ /\ ~HasClaim(PayloadJson(HintToken).val, "tid")
            /\ ~HasClaim(PayloadJson(HintToken).val, "tenant_id") )
       => last.val = PyNone

\* The claims of the token of the last event, and the value of one.
HintClaims == PayloadJson(HintToken).val
Claim(key) == DictGet(HintClaims.items, key)

\* C10, as amended. For a token of two segments or more whose second one
\* decodes to a JSON object, the extractor returns the value of tid when
\* that claim is present and truthy (not null, false, 0 or empty); else the
\* value of tenant_id when that claim is present; else absent.
C10_TidPreferred ==
  (HintRead /\ HasClaims(HintToken)) =>
    /\ ~last.raised
    /\ last.val =
         IF HasClaim(HintClaims, "tid") /\ Truthy(Claim("tid")) THEN Claim("tid")
         ELSE IF HasClaim(HintClaims, "tenant_id") THEN Claim("tenant_id")
         ELSE PyNone

\* The token of {"tid":"","tenant_id":"t2"} gave "t2".
C10_Witness ==
  /\ HintRead
  /\ HintToken = "h.eyJ0aWQiOiIiLCJ0ZW5hbnRfaWQiOiJ0MiJ9.s"
  /\ last.val = PyStr("t2")

\* C10 as stated: for a token of three segments whose payload is the
\* base64url text of a JSON object, the extractor returns the value of tid
\* whenever that claim is present, whatever its value; else the value of
\* tenant_id when that claim is present; else absent.
C10_AsStated ==
  ( /\ HintRead /\ HasClaims(HintToken)
    /\ Len(Segments(HintToken)) = 3
    /\ IsBase64Url(Segments(HintToken)[2]) ) =>
    last.val =
      IF HasClaim(HintClaims, "tid") THEN Claim("tid")
      ELSE IF HasClaim(HintClaims, "tenant_id") THEN Claim("tenant_id")
      ELSE PyNone

\* C11. The configuration never changes, and a call of is_obo_configured
\* returns true exactly when the three values are all non-empty, raises
\* nothing and changes nothing, whatever requests and exchanges came before.
C11_ConfiguredIsPure ==
  [][/\ config' = config
     /\ (last' # last /\ last'.op = "is_obo_configured") =>
          /\ ~last'.raised
          /\ last'.val = PyBool(/\ OBO_CLIENT_ID # ""
                                /\ OBO_CLIENT_SECRET # ""
                                /\ OBO_TENANT_ID # "")
          /\ UNCHANGED <<user_bearer_token, stage, scope, inflight, lastSet>>]_vars

\* is_obo_configured returned false for a missing tenant alone, in a
\* context that holds a token.
C11_Witness ==
  /\ last.op = "is_obo_configured" /\ last.val = PyBool(FALSE)
  /\ OBO_CLIENT_ID # "" /\ OBO_CLIENT_SECRET # "" /\ OBO_TENANT_ID = ""
  /\ user_bearer_token[last.ctx] = PyStr(BearerJwt)

\* C12. get_obo_headers raises nothing and returns either None or, after an
\* exchange that issued a token and only then, the mapping of exactly
\* Authorization to "Bearer " and the issued token, and Content-Type to
\* "application/json".
C12_HeaderShapes ==
  last.op = "get_obo_headers" =>
    /\ ~last.raised
    /\ IF last.call # NoCall /\ last.call.outcome = "token"
       THEN last.val =
              [t |-> "dict",
               d |-> [k \in {"Authorization", "Content-Type"} |->
                        IF k = "Authorization" THEN "Bearer " \o last.call.token
                        ELSE "application/json"]]
       ELSE last.val = PyNone

\* get_obo_headers returned the headers of the issued token, for a request
\* whose own token is another one.
C12_Witness ==
  /\ last.op = "get_obo_headers" /\ last.val.t = "dict"
  /\ last.val.d["Authorization"] = "Bearer issued-xyz"
  /\ user_bearer_token[last.ctx] = PyStr(BearerJwt)

\* C13. check_obo_tenant_auth(token, tenant) invokes the exchange with that
\* token as the user assertion and that tenant, and returns, raising nothing,
\* true when the exchange issued a token and false when the constructor or
\* get_token raised; neither the step that starts it nor the step that
\* returns from it changes a context's slot or the configuration.
C13_CheckTenantAuth ==
  [][/\ \A c \in Contexts :
          (inflight[c] = NoCall /\ inflight'[c].op = "check_obo_tenant_auth") =>
            /\ inflight'[c].cred.user_assertion = inflight'[c].args[1]
            /\ inflight'[c].cred.tenant_id = inflight'[c].args[2]
            /\ UNCHANGED <<user_bearer_token, config>>
     /\ (last' # last /\ last'.op = "check_obo_tenant_auth") =>
          /\ ~last'.raised
          /\ last'.call # NoCall
          /\ last'.call.cred.user_assertion = last'.args[1]
          /\ last'.call.cred.tenant_id = last'.args[2]
          /\ last'.val = PyBool(last'.call.outcome = "token")
          /\ UNCHANGED <<user_bearer_token, config>>]_vars

\* check_obo_tenant_auth returned false for the token and tenant given,
\* while the context holds another token.
C13_Witness ==
  /\ last.op = "check_obo_tenant_auth" /\ last.val = PyBool(FALSE)
  /\ last.args = <<PyStr(BearerJwt), PyStr("tenant2")>>
  /\ last.call.outcome = "get_token_raises"
  /\ user_bearer_token[last.ctx] = PyStr(EasyAuthJwt)

\* C14. While a context is suspended in the exchange of get_obo_headers,
\* every other context can read its slot and, outside a running next stage,
\* set it; whatever they set, the suspended context's slot and the user
\* assertion of its exchange stay the token it called with, and the call
\* returns the outcome of the exchange of that context's own token.
C14_SuspendedExchangeIsolated ==
  /\ \A c \in Contexts :
       inflight[c].op = "get_obo_headers" =>
         /\ inflight[c].cred.user_assertion = user_bearer_token[c]
         /\ \A d \in Contexts \ {c} :
              Free(d) =>
                /\ ENABLED Call_get_user_token(d)
                /\ stage[d] = "idle" => ENABLED Call_set_user_token(d, PyStr("tb"))
  /\ (last.op = "get_obo_headers" /\ last.call # NoCall) =>
       last.call.cred.user_assertion = user_bearer_token[last.ctx]

\* Context 2 set "tb" while context 1 is suspended in the exchange of "ta".
C14_Witness ==
  /\ inflight[1].op = "get_obo_headers"
  /\ inflight[1].cred.user_assertion = PyStr("ta")
  /\ last.op = "set_user_token" /\ last.ctx = 2 /\ last.args = <<PyStr("tb")>>
  /\ user_bearer_token = <<PyStr("ta"), PyStr("tb")>>

\* C15. No retries: the only thing a context does while an exchange of its
\* get_obo_headers or check_obo_tenant_auth call is in flight is to return
\* from that call, with that one exchange (one constructor call, at most one
\* get_token call) as the call's only invocation; a failed exchange gives
\* None, or False, at once.
C15_NoRetries ==
  [][\A c \in Contexts :
       inflight[c] # NoCall =>
         \/ inflight'[c] = inflight[c] /\ ~(last' # last /\ last'.ctx = c)
         \/ /\ inflight'[c] = NoCall
            /\ last'.ctx = c /\ last'.op = inflight[c].op
            /\ last'.args = inflight[c].args
            /\ last'.call.cred = inflight[c].cred
            /\ Len(last'.call.scopes) <= 1
            /\ last'.call.outcome # "token" =>
                 last'.val = IF last'.op = "get_obo_headers" THEN PyNone
                             ELSE PyBool(FALSE)]_vars

\* get_obo_headers returned None after the constructor raised, with no
\* exchange left in flight.
C15_Witness ==
  /\ last.op = "get_obo_headers" /\ last.call # NoCall
  /\ last.call.outcome = "ctor_raises" /\ last.call.scopes = <<>>
  /\ last.val = PyNone
  /\ inflight[last.ctx] = NoCall

\* C16. The slot of every context is absent at first; a step changes the
\* slot of a context only by a set_user_token call of that context, to the
\* argument of that call whatever the slot held (the same value included);
\* and a get_user_token of the context returns what its slot holds, that is
\* the argument of its most recent set, or absent before its first.
C16_GetReturnsLastSet ==
  /\ \A c \in Contexts : user_bearer_token[c] = PyNone
  /\ [][\A c \in Contexts :
          /\ user_bearer_token'[c] =
               IF last' # last /\ last'.ctx = c /\ last'.sets # <<>>
               THEN last'.sets[Len(last'.sets)]
               ELSE user_bearer_token[c]
          /\ (last' # last /\ last'.ctx = c /\ last'.op = "get_user_token") =>
               /\ last'.val = user_bearer_token[c]
               /\ last'.val = lastSet[c]]_vars

\* The next stage of a request that carried a bearer token reads back the
\* "tb" it set itself, while context 2 holds nothing.
C16_Witness ==
  /\ last.op = "get_user_token" /\ last.ctx = 1 /\ last.val = PyStr("tb")
  /\ stage[1] = "app"
  /\ scope[1] = Http(<<<<"authorization", "Bearer " \o BearerJwt>>>>)
  /\ user_bearer_token[2] = PyNone

\* C17. Every exchange made by get_obo_headers or check_obo_tenant_auth,
\* whatever the context, the token, the tenant and the configuration, asks
\* get_token for exactly one scope, "https://management.azure.com/.default"
\* (for none when the credential constructor raised before get_token).
C17_FixedScope ==
  last.call # NoCall =>
    /\ last.op \in {"get_obo_headers", "check_obo_tenant_auth"}
    /\ last.call.scopes = IF last.call.outcome = "ctor_raises" THEN <<>>
                          ELSE <<"https://management.azure.com/.default">>

\* check_obo_tenant_auth with a bearer token and tenant "tenant2", under a
\* configuration without tenant, asked for the management scope.
C17_Witness ==
  /\ last.op = "check_obo_tenant_auth" /\ last.val = PyBool(TRUE)
  /\ last.args = <<PyStr(BearerJwt), PyStr("tenant2")>>
  /\ last.call.scopes = <<ARM_SCOPE>>
  /\ OBO_TENANT_ID = ""

\* C18, as amended. After the middleware has processed an http request, the
\* slot of the request's context is absent or a string, and it is the empty
\* string exactly when no X-MS-TOKEN-AAD-ACCESS-TOKEN header gives a
\* non-empty value (the last one counts) and the last Authorization header
\* whose value starts with "bearer " has nothing but whitespace after it: an
\* empty X-MS-TOKEN-AAD-ACCESS-TOKEN value is never stored, an empty bearer
\* remainder is.
C18_EmptyOnlyFromBearer ==
  (last.op = "app" /\ last.args[1].type = "http") =>
    LET headers == last.args[1].headers
        token == user_bearer_token[last.ctx]
        x == LastWhere(headers, IsEasyAuth)
        b == LastWhere(headers, IsBearer)
    IN /\ token.t \in {"None", "str"}
       /\ token = PyStr("") <=>
            /\ ~(x > 0 /\ headers[x][2] # "")
            /\ b > 0 /\ BearerRemainder(headers[b]) = ""

\* "Authorization: Bearer " after an empty X-MS-TOKEN-AAD-ACCESS-TOKEN value
\* left the empty string in the slot, and get_user_token returned it.
C18_Witness ==
  /\ last.op = "get_user_token" /\ last.val = PyStr("")
  /\ stage[last.ctx] = "app"
  /\ scope[last.ctx] = Http(<<<<"x-ms-token-aad-access-token", "">>,
                              <<"authorization", "Bearer ">>>>)

\* C18 as stated: after the middleware has processed an http request, the
\* slot is absent or a non-empty string.
C18_AsStated ==
  (last.op = "app" /\ last.args[1].type = "http") =>
    \/ user_bearer_token[last.ctx] = PyNone
    \/ /\ user_bearer_token[last.ctx].t = "str"
       /\ user_bearer_token[last.ctx].s # ""

\* C19. The middleware invokes the next stage once for every scope it
\* receives, of any type and with any headers: a call of the middleware on an
\* idle context starts the next stage with that scope, the call ends only by
\* the return of that next stage and never by raising, and the middleware
\* makes no exchange of its own.
C19_NextStageAlwaysInvoked ==
  [][(last' # last /\ last'.op \in {"app", "OBOMiddleware.__call__"}) =>
       /\ IF stage[last'.ctx] = "idle"
          THEN /\ last'.op = "app"
               /\ stage'[last'.ctx] = "app"
               /\ scope'[last'.ctx] = last'.args[1]
          ELSE /\ last'.op = "OBOMiddleware.__call__" /\ ~last'.raised
               /\ stage'[last'.ctx] = "idle"
       /\ last'.call = NoCall
       /\ inflight' = inflight]_vars

\* C20. The reading operations leave every slot and the configuration as
\* they were: a step in which get_user_token, is_obo_configured,
\* get_user_tenant_id or get_obo_headers returns (with headers, or with None
\* before or after an exchange, a failed one included), and a step in which
\* get_obo_headers starts its exchange, changes neither user_bearer_token
\* nor the three configuration values; and a get_user_token returns the value
\* the slot held before the step and holds after it.
C20_ReadsChangeNothing ==
  [][(\/ /\ last' # last
         /\ last'.op \in {"get_user_token", "is_obo_configured",
                          "get_user_tenant_id", "get_obo_headers"}
      \/ \E c \in Contexts :
           inflight'[c] # inflight[c] /\ inflight'[c].op = "get_obo_headers") =>
       /\ user_bearer_token' = user_bearer_token
       /\ config' = config
       /\ (last' # last /\ last'.op = "get_user_token") =>
            /\ last'.val = user_bearer_token[last'.ctx]
            /\ last'.val = user_bearer_token'[last'.ctx]]_vars

\* get_user_tenant_id returned the hint "xyz" of the EasyAuth token, which
\* the slot still holds, under a full configuration.
C20_Witness ==
  /\ last.op = "get_user_tenant_id" /\ last.val = PyStr("xyz")
  /\ user_bearer_token[last.ctx] = PyStr(EasyAuthJwt)
  /\ lastSet[last.ctx] = PyStr(EasyAuthJwt)
  /\ is_obo_configured

====
